---------------------------- MODULE Spec2Model ----------------------------
(***************************************************************************)
(* Protest-tracker API: the serverless start-up (schema initialization     *)
(* memo and request wrapper) and the Express route handlers over the       *)
(* organizers / protests tables.                                           *)
(*                                                                         *)
(* The repository holds several snapshots of one server:                   *)
(*   "api"        src/api/db.js + src/unnamed/part_001 lines 1-325         *)
(*   "organizers" src/unnamed/part_000 + part_001 lines 327-495            *)
(*                (part_003 lines 264-505 is the same program in one file) *)
(*   "eager"      src/unnamed/part_003 lines 1-261                         *)
(*   "standalone" src/unnamed/part_002                                     *)
(*                                                                         *)
(* SpecInit is the start-up of the serverless snapshots, SpecAccounts the   *)
(* registration and login routes on an empty organizers table, and Spec    *)
(* the protest routes once the organizers are registered.                  *)
(***************************************************************************)
EXTENDS Integers, Sequences, FiniteSets, Bags, TLC

VARIABLES
    variant,                \* which snapshot of the server is running
    \* ---- start-up ----
    initializationPromise,  \* the memo: "null" | "pending" | "fulfilled" | "rejected"
    initPc,                 \* position of initializeDb / initializeDatabase
    initError,              \* the rejection reason of the memoized promise
    initStarts,             \* how many times the schema-creation work was started
    acquired,               \* pool.connect() results handed to initializeDb
    released,               \* client.release() calls made by initializeDb
    tables,                 \* tables the store holds
    isInitialized,          \* part_003:230
    exited,                 \* process.exit(1) has run
    wreq,                   \* requests at the exported handler: slot -> [pc, err]
    \* ---- the store and the route handlers ----
    storeUp,                \* the pool can reach the database
    organizers,             \* organizers table: row i has id i (SERIAL, never deleted)
    protests,               \* protests table: id -> row, for the ids that exist
    protests_id_seq,        \* next value of the protests id sequence
    pending,                \* handlers suspended between two statements (a bag)
    last                    \* the request handled by the latest step and its answer

initVars == <<initializationPromise, initPc, initError, initStarts, acquired,
              released, tables, isInitialized, exited, wreq>>

appVars == <<storeUp, organizers, protests, protests_id_seq, pending, last>>

store == <<organizers, protests, protests_id_seq>>

vars == <<variant, initVars, appVars>>

-----------------------------------------------------------------------------
(* Bounds *)

\* requests that reach the exported handler during one process lifetime
MaxReq == 3

Slots == 1..MaxReq

\* protests the id sequence hands out
MaxProtests == 1

\* largest like counter explored
MaxLikes == 2

\* handlers that may be suspended between two statements at one time
MaxInFlight == 1

\* the same, where the overlap of two handlers is what is explored
MaxRacing == 2

\* largest follower counter explored
MaxFollowers == 2

\* rows of the protests table a list is taken of
MaxListed == 2

\* dates and times of day of listed protests, and the days a list is asked on
ListDates == {1, 2}

ListTimes == {1, 2}

EmailOf == <<"ana@x.org", "bo@x.org">>

Emails == {EmailOf[i] : i \in 1..Len(EmailOf)}

\* passwords organizers register with, and what a login may submit
Passwords == {"pw1"}

LoginPasswords == Passwords \cup {"guess"}

Names == {"march", "vigil"}

Dates == {1}

Times == {1}

\* protest bodies a Create request carries: complete ones, and one for each
\* required field left out
Bodies ==
    {[name |-> n, date |-> 1, time |-> 1] : n \in Names}
    \cup {[name |-> "absent", date |-> 1, time |-> 1],
          [name |-> "march", date |-> 0, time |-> 1],
          [name |-> "march", date |-> 1, time |-> 0]}

\* bodies an Update request carries: the UPDATE statement treats the three
\* NOT NULL columns alike, so one incomplete body stands for them
UpdateBodies ==
    {[name |-> n, date |-> 1, time |-> 1] : n \in Names}
    \cup {[name |-> "absent", date |-> 1, time |-> 1]}

\* a body field or header the request does not carry (undefined in JS, NULL in SQL)
Absent == "absent"

NoDate == 0

\* organizer_id left out of a request body (NULL in the column)
NoOwner == 0

\* organizer ids a request body may name: none, a registered one or not
BodyOwners == {NoOwner} \cup 1..(Cardinality(Emails) + 1)

\* the JSON values of `liked` the interface documents: true, false, or no field
LikedValues == {"true", "false", Absent}

OrgIds == 1..Cardinality(Emails)

\* ids a request path may carry: the last one never exists
PathIds == 1..(MaxProtests + 1)

OrgPathIds == 1..(Cardinality(Emails) + 1)

\* the JSON values of `following`: true, false, or no field
FollowingValues == {"true", "false", Absent}

ServerlessVariants == {"api", "organizers", "eager"}

AllTables == {"organizers", "protests"}

NoError == "none"

-----------------------------------------------------------------------------
(* Start-up: initializeDb and the memo *)

\* The promise an async function returns is pending until the function
\* returns or throws.
InitRunning == initPc \in {"connect", "createOrganizers", "createProtests"}

\* db.js:60 `if (!dbInitializationPromise)`, part_000:62, part_003:485
MustInitialize_retryRejected == initializationPromise \in {"null", "rejected"}

MustInitialize_untilReady == initializationPromise # "fulfilled"

MustInitialize == initializationPromise = "null"

\* Calling initializeDb(): the function runs synchronously up to its first
\* await, `pool.connect()`, and hands back a pending promise.
StartInitialize ==
    /\ initPc' = "connect"
    /\ initStarts' = initStarts + 1
    /\ initializationPromise' = "pending"
    /\ initError' = NoError

\* ensureDbReady (db.js:59-64), ensureDbIsReady (part_000:61-66, part_003:484-489)
ensureDbReady ==
    IF MustInitialize
    THEN StartInitialize
    ELSE UNCHANGED <<initPc, initStarts, initializationPromise, initError>>

\* part_003:238-243: the .catch callback ends the process, so the derived
\* promise never settles.
ExitOnFailure_logOnly ==
    /\ exited' = FALSE
    /\ initializationPromise' = "fulfilled"
    /\ UNCHANGED isInitialized

ExitOnFailure ==
    /\ exited' = TRUE
    /\ initializationPromise' = "pending"
    /\ UNCHANGED isInitialized

\* initializeDb has returned: the memoized promise is fulfilled; in the eager
\* snapshot the .then callback (part_003:234-237) sets isInitialized first.
Fulfil ==
    /\ initializationPromise' = "fulfilled"
    /\ initError' = NoError
    /\ isInitialized' = (variant = "eager")
    /\ UNCHANGED exited

\* initializeDb has thrown `e`.
Reject(e) ==
    /\ initError' = e
    /\ IF variant = "eager"
       THEN ExitOnFailure
       ELSE /\ initializationPromise' = "rejected"
            /\ UNCHANGED <<isInitialized, exited>>

\* db.js:53-55 `finally { client.release(); }` (part_000:54-58, part_003:69-73):
\* runs whether the try block returned (ok) or threw
FinallyRelease_afterTry(ok) == released' = released + (IF ok THEN 1 ELSE 0)

FinallyRelease(ok) == released' = released + 1

\* `client = await pool.connect()` (db.js:14, part_000:16, part_003:30).
\* A failed connect leaves no client: db.js throws outside its try block,
\* the other snapshots skip the release on `if (client)`.
InitConnect(ok) ==
    /\ ~exited
    /\ UNCHANGED appVars
    /\ initPc = "connect"
    /\ IF ok
       THEN /\ initPc' = "createOrganizers"
            /\ acquired' = acquired + 1
            /\ UNCHANGED <<initializationPromise, initError, isInitialized,
                           exited, released>>
       ELSE /\ initPc' = "finished"
            /\ Reject("connect")
            /\ UNCHANGED <<acquired, released>>
    /\ UNCHANGED <<variant, initStarts, tables, wreq>>

\* CREATE TABLE IF NOT EXISTS organizers (db.js:18-29)
InitCreateOrganizers(ok) ==
    /\ ~exited
    /\ UNCHANGED appVars
    /\ initPc = "createOrganizers"
    /\ IF ok
       THEN /\ initPc' = "createProtests"
            /\ tables' = tables \cup {"organizers"}
            /\ UNCHANGED <<initializationPromise, initError, isInitialized,
                           exited, released>>
       ELSE /\ initPc' = "finished"
            /\ FinallyRelease(FALSE)
            /\ Reject("organizers")
            /\ UNCHANGED tables
    /\ UNCHANGED <<variant, initStarts, acquired, wreq>>

\* CREATE TABLE IF NOT EXISTS protests (db.js:31-48), then the finally block
InitCreateProtests(ok) ==
    /\ ~exited
    /\ UNCHANGED appVars
    /\ initPc = "createProtests"
    /\ initPc' = "finished"
    /\ FinallyRelease(ok)
    /\ IF ok
       THEN /\ tables' = tables \cup {"protests"}
            /\ Fulfil
       ELSE /\ Reject("protests")
            /\ UNCHANGED tables
    /\ UNCHANGED <<variant, initStarts, acquired, wreq>>

-----------------------------------------------------------------------------
(* The exported request handler *)

\* part_001:319-320 `await db.ensureDbReady(); app(req, res);`
ReadyToDispatch_noAwait == initializationPromise # "rejected"

ReadyToDispatch == initializationPromise = "fulfilled"

\* A request reaches module.exports (part_001:317-325, 484-495; part_003:491-505):
\* ensureDbReady() is called and the handler suspends on the promise.
HandlerEntry(r) ==
    /\ ~exited
    /\ UNCHANGED appVars
    /\ variant \in {"api", "organizers"}
    /\ wreq[r].pc = "idle"
    /\ ensureDbReady
    /\ wreq' = [wreq EXCEPT ![r].pc = "awaiting"]
    /\ UNCHANGED <<variant, acquired, released, tables, isInitialized, exited>>

\* part_003:245-261: the eager wrapper awaits only while isInitialized is false.
EagerEntry(r) ==
    /\ ~exited
    /\ UNCHANGED appVars
    /\ variant = "eager"
    /\ wreq[r].pc = "idle"
    /\ wreq' = [wreq EXCEPT ![r].pc =
                   IF isInitialized THEN "dispatched" ELSE "awaiting"]
    /\ UNCHANGED <<variant, initializationPromise, initPc, initError, initStarts,
                   acquired, released, tables, isInitialized, exited>>

\* The awaited promise is fulfilled: the request is passed to the Express app.
Dispatch(r) ==
    /\ ~exited
    /\ UNCHANGED appVars
    /\ wreq[r].pc = "awaiting"
    /\ ReadyToDispatch
    /\ wreq' = [wreq EXCEPT ![r].pc = "dispatched"]
    /\ UNCHANGED <<variant, initializationPromise, initPc, initError, initStarts,
                   acquired, released, tables, isInitialized, exited>>

\* The awaited promise is rejected: the catch block answers 500 with the
\* rejection reason (part_001:321-324, 488-494; part_003:250-256, 498-504).
Answer500(r) ==
    /\ ~exited
    /\ UNCHANGED appVars
    /\ wreq[r].pc = "awaiting"
    /\ initializationPromise = "rejected"
    /\ wreq' = [wreq EXCEPT ![r] = [pc |-> "answered500", err |-> initError]]
    /\ UNCHANGED <<variant, initializationPromise, initPc, initError, initStarts,
                   acquired, released, tables, isInitialized, exited>>

-----------------------------------------------------------------------------
(* Start-up of the standalone server *)

\* part_002:163-166: the server is listening; the callback calls
\* createTables() without awaiting it, and createTables runs up to its first
\* `await pool.query`
ListenCallback ==
    /\ variant = "standalone"
    /\ initPc = "none"
    /\ initPc' = "createProtests"
    /\ initStarts' = initStarts + 1
    /\ UNCHANGED <<variant, initializationPromise, initError, acquired, released,
                   tables, isInitialized, exited, wreq, appVars>>

\* part_002:41 `await pool.query(createProtestsTableQuery)`; a failure is
\* logged by the catch at part_002:44-46 and createTables returns
CreateTablesProtests(ok) ==
    /\ variant = "standalone"
    /\ initPc = "createProtests"
    /\ IF ok
       THEN /\ initPc' = "createOrganizers"
            /\ tables' = tables \cup {"protests"}
            /\ UNCHANGED initError
       ELSE /\ initPc' = "finished"
            /\ initError' = "protests"
            /\ UNCHANGED tables
    /\ UNCHANGED <<variant, initializationPromise, initStarts, acquired, released,
                   isInitialized, exited, wreq, appVars>>

\* part_002:42 `await pool.query(createOrganizersTableQuery)`
CreateTablesOrganizers(ok) ==
    /\ variant = "standalone"
    /\ initPc = "createOrganizers"
    /\ initPc' = "finished"
    /\ IF ok
       THEN tables' = tables \cup {"organizers"} /\ UNCHANGED initError
       ELSE initError' = "organizers" /\ UNCHANGED tables
    /\ UNCHANGED <<variant, initializationPromise, initStarts, acquired, released,
                   isInitialized, exited, wreq, appVars>>

\* A request reaches a route of the listening server (part_002:52-127): the
\* handler sends its statement on `table` to the pool at once; the statement
\* fails when the table does not exist and the handler's catch answers 500.
RouteQuery(r, table) ==
    /\ variant = "standalone"
    /\ initPc # "none"
    /\ wreq[r].pc = "idle"
    /\ wreq' = [wreq EXCEPT ![r] =
                   IF table \in tables
                   THEN [pc |-> "queried", err |-> NoError]
                   ELSE [pc |-> "answered500", err |-> table]]
    /\ UNCHANGED <<variant, initializationPromise, initPc, initError, initStarts,
                   acquired, released, tables, isInitialized, exited, appVars>>

-----------------------------------------------------------------------------
(* External collaborators: bcrypt and jsonwebtoken *)

\* bcrypt.hash(password, 10): a digest, never the plaintext
Hash(password) == <<"$2a$10$", password>>

\* bcrypt.compare(password, digest)
Compare(password, digest) == digest = Hash(password)

\* part_001:8
JWT_SECRET == "signing-secret"

NoToken == [id |-> 0, sig |-> "none", expired |-> FALSE]

\* jwt.sign({ id }, JWT_SECRET, { expiresIn }) (part_001:56, 94, 377)
Sign(id) == [id |-> id, sig |-> JWT_SECRET, expired |-> FALSE]

\* jwt.verify(token, JWT_SECRET): the signature is ours and the token is in date
Verify(t) == t.sig = JWT_SECRET /\ ~t.expired

\* What a client can put in the token header: nothing, a token this server
\* signed for an organizer (possibly past its expiry), or a token signed with
\* another key.
Presentable ==
    {NoToken}
    \cup {[id |-> i, sig |-> JWT_SECRET, expired |-> e] :
             i \in 1..Len(organizers), e \in BOOLEAN}
    \cup {[id |-> i, sig |-> "forged", expired |-> FALSE] : i \in OrgIds}

-----------------------------------------------------------------------------
(* The store *)

Max(a, b) == IF a >= b THEN a ELSE b

OrganizerByEmail(email) == {i \in 1..Len(organizers) : organizers[i].email = email}

Exists(id) == id \in DOMAIN protests

\* SQLSTATE of INSERT INTO organizers: NOT NULL on name, email, password_hash,
\* UNIQUE on email (db.js:19-28)
InsertOrganizerError(name, email, password_hash) ==
    IF name = Absent \/ email = Absent \/ password_hash = Absent THEN "23502"
    ELSE IF OrganizerByEmail(email) # {} THEN "23505"
    ELSE "none"

\* NOT NULL on protests.name, date, time (db.js:32-47)
ProtestNotNullError(name, date, time) ==
    name = Absent \/ date = NoDate \/ time = NoDate

DeleteRow(id) == [i \in DOMAIN protests \ {id} |-> protests[i]]

\* a protests row as a SELECT * / RETURNING * hands it to the handler
AsRow(id, r) ==
    [id |-> id, organizer_id |-> r.organizer_id, name |-> r.name,
     date |-> r.date, time |-> r.time, likes |-> r.likes]

\* `id SERIAL PRIMARY KEY` (db.js:33): the id the next INSERT INTO protests gets
NextId_lowestFree == CHOOSE i \in 1..(MaxProtests + 1) : i \notin DOMAIN protests

NextId == protests_id_seq

-----------------------------------------------------------------------------
(* Requests and answers *)

\* `last` describes the request the latest step answered, as far as the
\* handler read it, and the answer; it is NoRequest once the answer has left.
\* Of the answer it keeps the status, a counter or id (n), a token (tok), the
\* organizer columns it shows (shows) and the protest rows it carries (rows);
\* `before` is the counter the request's UPDATE found in the row.
NoRequest ==
    [op |-> "none", status |-> 0, auth |-> NoToken, who |-> 0, id |-> 0,
     name |-> Absent, email |-> Absent, password |-> Absent, liked |-> Absent,
     following |-> Absent,
     date |-> NoDate, time |-> NoDate, n |-> 0, before |-> 0, tok |-> NoToken,
     shows |-> {}, rows |-> <<>>]

Answer(request, status) == last' = [request EXCEPT !.status = status]

Suspended ==
    [op : {"register", "update", "delete"},
     auth : {NoToken} \cup {Sign(i) : i \in OrgIds}, who : 0..Cardinality(Emails),
     id : 0..(MaxProtests + 1), name : Names \cup {Absent},
     email : Emails \cup {Absent}, password : Passwords \cup {Absent},
     date : Dates \cup {NoDate}, time : Times \cup {NoDate}]

Suspend(request) ==
    /\ pending' = pending (+) SetToBag({[f \in {"op", "auth", "who", "id", "name",
                                               "email", "password", "date",
                                               "time"} |-> request[f]]})
    /\ last' = NoRequest

\* the step leaves at most `cap` handlers suspended
Within(cap) == BagCardinality(pending') <= cap

Resume(k) ==
    /\ BagIn(k, pending)
    /\ pending' = pending (-) SetToBag({k})

Resumed(k) == [f \in DOMAIN NoRequest |-> IF f \in DOMAIN k THEN k[f] ELSE NoRequest[f]]

\* authenticateToken (part_001:14-29) and auth (part_001:385-397): the status
\* the middleware answers, or 200 when it calls next()
InvalidTokenStatus == IF variant = "api" THEN 403 ELSE 400

authenticateToken_skipVerify(t) == IF t = NoToken THEN 401 ELSE 200

authenticateToken(t) ==
    IF t = NoToken THEN 401
    ELSE IF ~Verify(t) THEN InvalidTokenStatus
    ELSE 200

\* the organizer id a handler behind the middleware works with:
\* req.user.id (part_001:26), req.organizerId (part_001:392)
Caller(t) == t.id

-----------------------------------------------------------------------------
(* Route handlers *)

\* part_001:357-361: a unique-email violation is answered 409; the other
\* snapshots have one catch-all answer (part_001:63-66, part_002:63-66)
InsertErrorStatus(code) ==
    IF variant = "organizers" /\ code = "23505" THEN 409 ELSE 500

\* part_001:42-44 `if (existingUser.rows.length > 0)`
EmailTaken(email) == OrganizerByEmail(email) # {}

\* the columns of the organizers table (db.js:19-28)
OrganizerColumns ==
    {"id", "name", "email", "password_hash", "bio", "followers", "social_clicks",
     "created_at"}

\* part_001:51 `RETURNING id, name, email, bio`; part_001:351 and part_002:59
\* `RETURNING id, name, email`: the organizer fields of the 201 response
RegisterReturning_star == OrganizerColumns

RegisterReturning ==
    IF variant = "api" THEN {"id", "name", "email", "bio"}
    ELSE {"id", "name", "email"}

\* part_001:56-60: the api snapshot signs a token for the new organizer; the
\* other snapshots answer with the row alone (part_001:354, part_002:62)
RegisterToken(id) == IF variant = "api" THEN Sign(id) ELSE NoToken

\* INSERT INTO organizers ... RETURNING id, and the answer to the request
InsertOrganizer(req) ==
    LET hash == IF req.password = Absent THEN Absent ELSE Hash(req.password)
        code == InsertOrganizerError(req.name, req.email, hash)
        id   == Len(organizers) + 1
    IN IF ~storeUp
       THEN Answer(req, 500) /\ UNCHANGED organizers
       ELSE IF code # "none"
       THEN Answer(req, InsertErrorStatus(code)) /\ UNCHANGED organizers
       ELSE /\ organizers' = Append(organizers,
                                [name |-> req.name, email |-> req.email,
                                 password_hash |-> hash, followers |-> 0])
            /\ last' = [req EXCEPT !.status = 201, !.n = id,
                                   !.tok = RegisterToken(id),
                                   !.shows = RegisterReturning]

\* POST /api/register (part_001:32-67), POST /api/organizers/register
\* (part_001:342-363, part_003:78-100, 341-362; part_002:52-67)
Register(name, email, password) ==
    LET req == [NoRequest EXCEPT !.op = "register", !.name = name,
                                 !.email = email, !.password = password]
        missing == name = Absent \/ email = Absent \/ password = Absent
    IN
    /\ last = NoRequest
    /\ IF variant = "api"
       THEN IF missing
            THEN Answer(req, 400) /\ UNCHANGED <<organizers, pending>>
            ELSE IF ~storeUp
            THEN Answer(req, 500) /\ UNCHANGED <<organizers, pending>>
            ELSE IF EmailTaken(email)
            THEN Answer(req, 400) /\ UNCHANGED <<organizers, pending>>
            ELSE Suspend(req) /\ UNCHANGED organizers
       ELSE IF variant = "organizers" /\ missing
            THEN Answer(req, 400) /\ UNCHANGED <<organizers, pending>>
            ELSE InsertOrganizer(req) /\ UNCHANGED pending
    /\ UNCHANGED <<variant, initVars, storeUp, protests, protests_id_seq>>

\* part_001:47-62: the password is hashed and the row inserted after the
\* existence check has answered
RegisterInsert(k) ==
    /\ last = NoRequest
    /\ k.op = "register"
    /\ Resume(k)
    /\ InsertOrganizer(Resumed(k))
    /\ UNCHANGED <<variant, initVars, storeUp, protests, protests_id_seq>>

\* POST /api/login (part_001:70-110), POST /api/organizers/login
\* (part_001:365-383, part_003:102-121, 364-382; part_002:69-88)
InvalidCredentialsStatus == IF variant = "standalone" THEN 400 ELSE 401

LoginToken(id) == IF variant = "standalone" THEN NoToken ELSE Sign(id)

Login(email, password) ==
    LET req == [NoRequest EXCEPT !.op = "login", !.email = email,
                                 !.password = password]
        rows == OrganizerByEmail(email)
        id == CHOOSE i \in rows : TRUE
    IN
    /\ last = NoRequest
    /\ IF variant = "api" /\ (email = Absent \/ password = Absent)
       THEN Answer(req, 400)
       ELSE IF ~storeUp
       THEN Answer(req, 500)
       ELSE IF rows = {}
       THEN Answer(req, InvalidCredentialsStatus)
       ELSE IF password = Absent
       THEN Answer(req, 500)    \* bcrypt.compare(undefined, digest) throws
       ELSE IF ~Compare(password, organizers[id].password_hash)
       THEN Answer(req, InvalidCredentialsStatus)
       ELSE last' = [req EXCEPT !.status = 200, !.n = id, !.tok = LoginToken(id)]
    /\ UNCHANGED <<variant, initVars, storeUp, store, pending>>

\* POST /api/protests (part_001:153-172; part_001:435-448, part_003:177-191)
CreateProtest(t, name, date, time) ==
    LET auth == authenticateToken(t)
        seen == [NoRequest EXCEPT !.op = "create", !.auth = t]
        req  == [seen EXCEPT !.who = Caller(t), !.name = name, !.date = date,
                             !.time = time]
        missing == ProtestNotNullError(name, date, time)
    IN
    /\ last = NoRequest
    /\ variant \in {"api", "organizers"}
    /\ IF auth # 200
       THEN Answer(seen, auth) /\ UNCHANGED <<protests, protests_id_seq>>
       ELSE IF variant = "api" /\ missing
       THEN Answer(req, 400) /\ UNCHANGED <<protests, protests_id_seq>>
       ELSE IF ~storeUp \/ missing
       THEN Answer(req, 500) /\ UNCHANGED <<protests, protests_id_seq>>
       ELSE LET row == [organizer_id |-> Caller(t), name |-> name,
                        date |-> date, time |-> time, likes |-> 0]
            IN /\ protests_id_seq <= MaxProtests
               /\ protests' = protests @@ (NextId :> row)
               /\ protests_id_seq' = protests_id_seq + 1
               /\ last' = [req EXCEPT !.status = 201, !.id = NextId,
                                      !.rows = <<AsRow(NextId, row)>>]
    /\ UNCHANGED <<variant, initVars, storeUp, organizers, pending>>

\* POST /api/protests of the standalone snapshot (part_002:95-109): no
\* middleware, organizer_id is read from the body; the column is a plain INT
\* (part_002:29)
CreateProtestOpen(organizer_id, name, date, time) ==
    LET req == [NoRequest EXCEPT !.op = "create", !.who = organizer_id,
                                 !.name = name, !.date = date, !.time = time]
        row == [organizer_id |-> organizer_id, name |-> name, date |-> date,
                time |-> time, likes |-> 0]
    IN
    /\ last = NoRequest
    /\ variant = "standalone"
    /\ IF ~storeUp \/ ProtestNotNullError(name, date, time)
       THEN Answer(req, 500) /\ UNCHANGED <<protests, protests_id_seq>>
       ELSE /\ protests_id_seq <= MaxProtests
            /\ protests' = protests @@ (NextId :> row)
            /\ protests_id_seq' = protests_id_seq + 1
            /\ last' = [req EXCEPT !.status = 201, !.id = NextId,
                                   !.rows = <<AsRow(NextId, row)>>]
    /\ UNCHANGED <<variant, initVars, storeUp, organizers, pending>>

\* part_001:191-193, 455: the SET list names the editable columns;
\* organizer_id and likes are not among them
UpdatedRow_setsOwner(row, req) ==
    [row EXCEPT !.name = req.name, !.date = req.date, !.time = req.time,
                !.organizer_id = NoOwner]

UpdatedRow(row, req) ==
    [row EXCEPT !.name = req.name, !.date = req.date, !.time = req.time]

\* UPDATE protests SET name, ..., date, time WHERE id RETURNING *
\* (part_001:189-196), and the answer to the request
WriteUpdate(req, matches) ==
    IF ~storeUp
    THEN Answer(req, 500) /\ UNCHANGED protests
    ELSE IF ~matches
    THEN Answer(req, IF variant = "api" THEN 200 ELSE 404) /\ UNCHANGED protests
    ELSE IF ProtestNotNullError(req.name, req.date, req.time)
    THEN Answer(req, 500) /\ UNCHANGED protests
    ELSE LET row == UpdatedRow(protests[req.id], req)
         IN /\ protests' = [protests EXCEPT ![req.id] = row]
            /\ last' = [req EXCEPT !.status = 200,
                                   !.rows = <<AsRow(req.id, row)>>]

\* part_001:185 `checkResult.rows[0].organizer_id !== req.user.id`
IsOwner_anyone(id, who) == TRUE

IsOwner(id, who) == protests[id].organizer_id = who

\* PUT /api/protests/:id, check-then-update (part_001:175-203) and
\* conditional update (part_001:450-466, part_003:193-210)
UpdateProtest(t, id, name, date, time) ==
    LET auth == authenticateToken(t)
        seen == [NoRequest EXCEPT !.op = "update", !.auth = t]
        req  == [seen EXCEPT !.who = Caller(t), !.id = id, !.name = name,
                             !.date = date, !.time = time]
        asked == [seen EXCEPT !.who = Caller(t), !.id = id]
    IN
    /\ last = NoRequest
    /\ variant \in {"api", "organizers"}
    /\ IF auth # 200
       THEN Answer(seen, auth) /\ UNCHANGED <<protests, pending>>
       ELSE IF variant = "organizers"
       THEN /\ WriteUpdate(req, Exists(id) /\ IsOwner(id, Caller(t)))
            /\ UNCHANGED pending
       ELSE IF ~storeUp
       THEN Answer(asked, 500) /\ UNCHANGED <<protests, pending>>
       ELSE IF ~Exists(id)
       THEN Answer(asked, 404) /\ UNCHANGED <<protests, pending>>
       ELSE IF ~IsOwner(id, Caller(t))
       THEN Answer(asked, 403) /\ UNCHANGED <<protests, pending>>
       ELSE Suspend(req) /\ UNCHANGED protests
    /\ UNCHANGED <<variant, initVars, storeUp, organizers, protests_id_seq>>

\* PUT /api/protests/:id of the standalone snapshot (part_002:111-127): no
\* middleware; the UPDATE names the row by id alone
UpdateProtestOpen(id, name, date, time) ==
    LET req == [NoRequest EXCEPT !.op = "update", !.id = id, !.name = name,
                                 !.date = date, !.time = time]
    IN
    /\ last = NoRequest
    /\ variant = "standalone"
    /\ IF ~storeUp
       THEN Answer(req, 500) /\ UNCHANGED protests
       ELSE IF ~Exists(id)
       THEN Answer(req, 404) /\ UNCHANGED protests
       ELSE WriteUpdate(req, TRUE)
    /\ UNCHANGED <<variant, initVars, storeUp, organizers, protests_id_seq, pending>>

\* part_001:189-198: the UPDATE statement of a request whose check passed
UpdateWrite(k) ==
    /\ last = NoRequest
    /\ k.op = "update"
    /\ Resume(k)
    /\ WriteUpdate(Resumed(k), Exists(k.id))
    /\ UNCHANGED <<variant, initVars, storeUp, organizers, protests_id_seq>>

\* DELETE /api/protests/:id (part_001:206-226): the ownership check
DeleteProtest(t, id) ==
    LET auth == authenticateToken(t)
        seen == [NoRequest EXCEPT !.op = "delete", !.auth = t]
        req  == [seen EXCEPT !.who = Caller(t), !.id = id]
    IN
    /\ last = NoRequest
    /\ variant = "api"
    /\ IF auth # 200
       THEN Answer(seen, auth) /\ UNCHANGED pending
       ELSE IF ~storeUp
       THEN Answer(req, 500) /\ UNCHANGED pending
       ELSE IF ~Exists(id)
       THEN Answer(req, 404) /\ UNCHANGED pending
       ELSE IF ~IsOwner(id, Caller(t))
       THEN Answer(req, 403) /\ UNCHANGED pending
       ELSE Suspend(req)
    /\ UNCHANGED <<variant, initVars, storeUp, store>>

\* part_001:219-221: the DELETE statement of a request whose check passed
DeleteWrite(k) ==
    /\ last = NoRequest
    /\ k.op = "delete"
    /\ Resume(k)
    /\ IF ~storeUp
       THEN Answer(Resumed(k), 500) /\ UNCHANGED protests
       ELSE /\ protests' = DeleteRow(k.id)
            /\ Answer(Resumed(k), 200)
    /\ UNCHANGED <<variant, initVars, storeUp, organizers, protests_id_seq>>

\* part_001:271 `const increment = liked ? 1 : -1;`
Increment_likeOnly(liked) == IF liked = "true" THEN 1 ELSE 0

Increment(liked) == IF liked = "true" THEN 1 ELSE -1

\* part_001:273 `likes = GREATEST(0, likes + $1)`
NewLikes_noFloor(likes, increment) == likes + increment

\* the increment applied to the value read before the previous request's write
NewLikes_staleRead(likes, increment) ==
    Max(0, (IF likes > 0 THEN likes - 1 ELSE likes) + increment)

NewLikes(likes, increment) == Max(0, likes + increment)

\* part_001:273 `WHERE id = $2`: the rows the UPDATE statement changes
LikeTargets_noWhere(id) == DOMAIN protests

LikeTargets(id) == {i \in DOMAIN protests : i = id}

\* POST /api/protests/:id/like (part_001:266-286)
\* part_001:266-286: the handler, whatever answer was given last
LikeStatement(id, liked) ==
    LET req == [NoRequest EXCEPT !.op = "like", !.id = id, !.liked = liked]
        rows == LikeTargets(id)
        likes(i) == NewLikes(protests[i].likes, Increment(liked))
    IN
    /\ variant = "api"
    /\ IF ~storeUp
       THEN Answer(req, 500) /\ UNCHANGED protests
       ELSE IF rows = {}
       THEN Answer(req, 404) /\ UNCHANGED protests
       ELSE /\ \A i \in rows : likes(i) <= MaxLikes
            /\ protests' = [i \in DOMAIN protests |->
                               IF i \in rows
                               THEN [protests[i] EXCEPT !.likes = likes(i)]
                               ELSE protests[i]]
            /\ last' = [req EXCEPT !.status = 200,
                                   !.n = likes(CHOOSE i \in rows : TRUE),
                                   !.before = protests[CHOOSE i \in rows : TRUE].likes]
    /\ UNCHANGED <<variant, initVars, storeUp, organizers, protests_id_seq, pending>>

\* POST /api/protests/:id/like (part_001:266-286), one request at a time
LikeProtest(id, liked) ==
    /\ last = NoRequest
    /\ LikeStatement(id, liked)

\* part_001:294 `const increment = following ? 1 : -1;`
FollowIncrement(following) == IF following = "true" THEN 1 ELSE -1

\* part_001:296 `followers = GREATEST(0, followers + $1)`
NewFollowers_noFloor(followers, increment) == followers + increment

NewFollowers(followers, increment) == Max(0, followers + increment)

\* part_001:296 `WHERE id = $2`
FollowTargets(id) == {i \in 1..Len(organizers) : i = id}

\* part_001:289-309: the handler, whatever answer was given last
FollowStatement(id, following) ==
    LET req == [NoRequest EXCEPT !.op = "follow", !.id = id,
                                 !.following = following]
        rows == FollowTargets(id)
        followers(i) == NewFollowers(organizers[i].followers,
                                     FollowIncrement(following))
    IN
    /\ variant = "api"
    /\ IF ~storeUp
       THEN Answer(req, 500) /\ UNCHANGED organizers
       ELSE IF rows = {}
       THEN Answer(req, 404) /\ UNCHANGED organizers
       ELSE /\ \A i \in rows : followers(i) <= MaxFollowers
            /\ organizers' = [i \in 1..Len(organizers) |->
                                 IF i \in rows
                                 THEN [organizers[i] EXCEPT !.followers = followers(i)]
                                 ELSE organizers[i]]
            /\ last' = [req EXCEPT !.status = 200,
                                   !.n = followers(CHOOSE i \in rows : TRUE),
                                   !.before = organizers[CHOOSE i \in rows : TRUE].followers]
    /\ UNCHANGED <<variant, initVars, storeUp, protests, protests_id_seq, pending>>

\* POST /api/organizers/:id/follow (part_001:289-309), one request at a time
FollowOrganizer(id, following) ==
    /\ last = NoRequest
    /\ FollowStatement(id, following)

\* part_001:123 `ORDER BY p.date ASC, p.time ASC`, part_001:470
\* `ORDER BY date, time`: row a may stand before row b
ListOrder_dateOnly(a, b) == a.date <= b.date

ListOrder(a, b) == a.date < b.date \/ (a.date = b.date /\ a.time <= b.time)

\* part_001:234 `ORDER BY date ASC, time ASC`; part_001:411 `ORDER BY date DESC`
MineOrder(a, b) ==
    IF variant = "api" THEN ListOrder(a, b) ELSE a.date >= b.date

\* every sequence holding each of the rows `ids` once
Arrangements(ids) ==
    {rows \in [1..Cardinality(ids) -> {AsRow(id, protests[id]) : id \in ids}] :
        \A i, j \in DOMAIN rows : i # j => rows[i].id # rows[j].id}

\* The row sequences SELECT ... ORDER BY may return for the rows `ids`: every
\* arrangement the ordering admits (rows equal under it come in any order)
ListRows(ids) ==
    {rows \in Arrangements(ids) :
        \A i, j \in DOMAIN rows : i < j => ListOrder(rows[i], rows[j])}

MineRows(ids) ==
    {rows \in Arrangements(ids) :
        \A i, j \in DOMAIN rows : i < j => MineOrder(rows[i], rows[j])}

\* part_001:121-122 `FROM protests p JOIN organizers o ON p.organizer_id = o.id`;
\* part_001:470 `WHERE date >= CURRENT_DATE`
ListSelected(today) ==
    IF variant = "api"
    THEN {id \in DOMAIN protests : protests[id].organizer_id \in 1..Len(organizers)}
    ELSE {id \in DOMAIN protests : protests[id].date >= today}

\* GET /api/protests (part_001:113-150, 468-476)
ListProtests(today) ==
    LET req == [NoRequest EXCEPT !.op = "list", !.date = today] IN
    /\ last = NoRequest
    /\ variant \in {"api", "organizers"}
    /\ IF ~storeUp
       THEN Answer(req, 500)
       ELSE \E rows \in ListRows(ListSelected(today)) :
               last' = [req EXCEPT !.status = 200, !.rows = rows]
    /\ UNCHANGED <<variant, initVars, storeUp, store, pending>>

\* part_001:233 `WHERE organizer_id = $1` with req.user.id; part_001:411 with
\* req.organizerId
MineSelected(who, id) ==
    {i \in DOMAIN protests : protests[i].organizer_id = who}

\* GET /api/organizer/protests (part_001:229-242) and
\* GET /api/organizers/:id/protests (part_001:409-417, part_003:149-158)
ListMine(t, id) ==
    LET auth == authenticateToken(t)
        seen == [NoRequest EXCEPT !.op = "mine", !.auth = t]
        req  == [seen EXCEPT !.who = Caller(t), !.id = id]
    IN
    /\ last = NoRequest
    /\ variant \in {"api", "organizers"}
    /\ IF auth # 200
       THEN Answer(seen, auth)
       ELSE IF ~storeUp
       THEN Answer(req, 500)
       ELSE \E rows \in MineRows(MineSelected(Caller(t), id)) :
               last' = [req EXCEPT !.status = 200, !.rows = rows]
    /\ UNCHANGED <<variant, initVars, storeUp, store, pending>>

\* part_002:91-93 `async (req, res) => { /* ... existing code ... */ }`: the
\* handler returns without a statement and without writing to res
EmptyHandler(op) ==
    /\ last = NoRequest
    /\ variant = "standalone"
    /\ last' = [NoRequest EXCEPT !.op = op]
    /\ UNCHANGED <<variant, initVars, storeUp, store, pending>>

\* the database becomes unreachable, or reachable again: while it is
\* unreachable every db.query / pool.query rejects
StoreOutage ==
    /\ storeUp' = ~storeUp
    /\ UNCHANGED <<variant, initVars, store, pending, last>>

\* res.json(...) / res.status(...).json(...): the answer leaves the process
ResponseSent ==
    /\ last # NoRequest
    /\ last.status # 0
    /\ last' = NoRequest
    /\ UNCHANGED <<variant, initVars, storeUp, store, pending>>

-----------------------------------------------------------------------------
(* The route handlers' specification *)

\* The start-up has succeeded: the schema exists and the wrapper passes
\* every request on.
Started ==
    /\ initializationPromise = IF variant = "standalone" THEN "null" ELSE "fulfilled"
    /\ initPc = "finished"
    /\ initStarts = 1
    /\ initError = NoError
    /\ acquired = IF variant = "standalone" THEN 0 ELSE 1
    /\ released = acquired
    /\ tables = AllTables
    /\ isInitialized = FALSE
    /\ exited = FALSE
    /\ wreq = [r \in Slots |-> [pc |-> "idle", err |-> NoError]]
    /\ storeUp = TRUE
    /\ pending = EmptyBag
    /\ last = NoRequest

\* Accounts: registration and login against an empty organizers table.
InitAccounts ==
    /\ variant \in {"api", "organizers", "standalone"}
    /\ Started
    /\ organizers = <<>>
    /\ protests = <<>>
    /\ protests_id_seq = 1

NextAccounts ==
    \/ \E name \in {"org", Absent}, email \in Emails \cup {Absent},
          password \in Passwords \cup {Absent} :
          Register(name, email, password) /\ Within(MaxRacing)
    \/ \E k \in BagToSet(pending) : RegisterInsert(k)
    \/ \E email \in Emails \cup {Absent}, password \in LoginPasswords \cup {Absent} :
          Login(email, password)
    \/ \E id \in OrgPathIds, following \in FollowingValues :
          FollowOrganizer(id, following)
    \/ ResponseSent

SpecAccounts == InitAccounts /\ [][NextAccounts]_vars

\* The organizers table after each email has been registered once.
Registered ==
    [i \in 1..Len(EmailOf) |->
        [name |-> "org", email |-> EmailOf[i], password_hash |-> Hash("pw1"),
         followers |-> 0]]

\* Protests: the protest routes of the token-protected snapshots, with the
\* organizers registered and no protest yet.
Init ==
    /\ variant \in {"api", "organizers"}
    /\ Started
    /\ organizers = Registered
    /\ protests = <<>>
    /\ protests_id_seq = 1

Next ==
    \/ \E email \in Emails \cup {Absent}, password \in LoginPasswords \cup {Absent} :
          Login(email, password)
    \/ \E t \in Presentable, b \in Bodies :
          CreateProtest(t, b.name, b.date, b.time)
    \/ \E t \in Presentable, id \in PathIds, b \in UpdateBodies :
          UpdateProtest(t, id, b.name, b.date, b.time) /\ Within(MaxInFlight)
    \/ \E k \in BagToSet(pending) : UpdateWrite(k)
    \/ \E t \in Presentable, id \in PathIds :
          DeleteProtest(t, id) /\ Within(MaxInFlight)
    \/ \E k \in BagToSet(pending) : DeleteWrite(k)
    \/ \E id \in PathIds, liked \in LikedValues : LikeProtest(id, liked)
    \/ ResponseSent

Spec == Init /\ [][Next]_vars

\* The standalone server (part_002): registration and the unprotected
\* protest routes, from empty tables.
InitStandalone ==
    /\ variant = "standalone"
    /\ Started
    /\ organizers = <<>>
    /\ protests = <<>>
    /\ protests_id_seq = 1

NextStandalone ==
    \/ \E email \in Emails : Register("org", email, "pw1")
    \/ \E o \in BodyOwners, b \in Bodies : CreateProtestOpen(o, b.name, b.date, b.time)
    \/ \E id \in PathIds, b \in UpdateBodies :
          UpdateProtestOpen(id, b.name, b.date, b.time)
    \/ ResponseSent

SpecStandalone == InitStandalone /\ [][NextStandalone]_vars

\* Lists: the list routes over every content of the protests table of up to
\* MaxListed rows.
ListedRows ==
    [organizer_id : OrgIds, name : {"march"}, date : ListDates, time : ListTimes,
     likes : {0}]

InitList ==
    /\ variant \in {"api", "organizers"}
    /\ Started
    /\ organizers = Registered
    /\ \E n \in 0..MaxListed :
          /\ protests \in [1..n -> ListedRows]
          /\ protests_id_seq = n + 1

NextList ==
    \/ \E today \in ListDates : ListProtests(today)
    \/ \E t \in Presentable, id \in OrgPathIds : ListMine(t, id)
    \/ ResponseSent

SpecList == InitList /\ [][NextList]_vars

\* what a logged-in organizer sends: a token the server issued, in date
IssuedTokens == {Sign(i) : i \in 1..Len(organizers)}

\* Races: the check-then-write routes of part_001:175-226 with two handlers
\* allowed between their check and their write.
InitRace ==
    /\ variant = "api"
    /\ Started
    /\ organizers = Registered
    /\ protests = <<>>
    /\ protests_id_seq = 1

NextRace ==
    \/ \E t \in IssuedTokens, n \in Names : CreateProtest(t, n, 1, 1)
    \/ \E t \in IssuedTokens, id \in PathIds, n \in Names :
          UpdateProtest(t, id, n, 1, 1) /\ Within(MaxRacing)
    \/ \E k \in BagToSet(pending) : UpdateWrite(k)
    \/ \E t \in IssuedTokens, id \in PathIds :
          DeleteProtest(t, id) /\ Within(MaxRacing)
    \/ \E k \in BagToSet(pending) : DeleteWrite(k)
    \/ ResponseSent

SpecRace == InitRace /\ [][NextRace]_vars

\* A statement sent to the pool is answered and the handler awaiting it runs
\* on; an answer written to the response leaves.
SpecRaceLive ==
    /\ SpecRace
    /\ WF_vars(\E k \in BagToSet(pending) : UpdateWrite(k))
    /\ WF_vars(\E k \in BagToSet(pending) : DeleteWrite(k))
    /\ WF_vars(ResponseSent)

\* Counters: the like and follow routes of part_001:266-309 on a protest and
\* on organizers whose counters start anywhere in their range; a request may
\* be handled while the previous answer is still the latest one.
InitCounters ==
    /\ variant = "api"
    /\ Started
    /\ \E f \in 0..MaxFollowers :
          organizers = [i \in DOMAIN Registered |->
                           [Registered[i] EXCEPT !.followers = f]]
    /\ \E n \in 0..MaxLikes :
          protests = <<[organizer_id |-> 1, name |-> "march", date |-> 1,
                        time |-> 1, likes |-> n]>>
    /\ protests_id_seq = 2

NextCounters ==
    \/ \E id \in PathIds, liked \in LikedValues : LikeStatement(id, liked)
    \/ \E id \in OrgPathIds, following \in FollowingValues :
          FollowStatement(id, following)
    \/ ResponseSent

SpecCounters == InitCounters /\ [][NextCounters]_vars

\* Faults: the routes of part_001:266-286, 450-466 and part_002:91-127 over
\* a protests table of up to MaxProtests rows, with the database going away
\* and coming back.
InitFaults ==
    /\ variant \in {"api", "organizers", "standalone"}
    /\ Started
    /\ organizers = Registered
    /\ \E n \in 0..MaxProtests :
          /\ protests \in [1..n -> [organizer_id : {1}, name : {"march"},
                                    date : Dates, time : Times, likes : {0}]]
          /\ protests_id_seq = n + 1

NextFaults ==
    \/ StoreOutage
    \/ \E id \in PathIds, liked \in LikedValues : LikeProtest(id, liked)
    \/ \E t \in Presentable, id \in PathIds, b \in UpdateBodies :
          UpdateProtest(t, id, b.name, b.date, b.time) /\ Within(MaxInFlight)
    \/ \E k \in BagToSet(pending) : UpdateWrite(k)
    \/ \E id \in PathIds, b \in UpdateBodies :
          UpdateProtestOpen(id, b.name, b.date, b.time)
    \/ \E op \in {"list", "show", "like"} : EmptyHandler(op)
    \/ ResponseSent

SpecFaults == InitFaults /\ [][NextFaults]_vars

-----------------------------------------------------------------------------
(* The start-up specification *)

\* Module load: the memo snapshots start with no promise; the eager snapshot
\* calls initializeDb() while the file is loaded (part_003:233).
InitStartup ==
    /\ variant \in ServerlessVariants
    /\ initializationPromise = IF variant = "eager" THEN "pending" ELSE "null"
    /\ initPc = IF variant = "eager" THEN "connect" ELSE "none"
    /\ initStarts = IF variant = "eager" THEN 1 ELSE 0
    /\ initError = NoError
    /\ acquired = 0
    /\ released = 0
    /\ tables = {}
    /\ isInitialized = FALSE
    /\ exited = FALSE
    /\ wreq = [r \in Slots |-> [pc |-> "idle", err |-> NoError]]
    /\ storeUp = TRUE
    /\ organizers = <<>>
    /\ protests = <<>>
    /\ protests_id_seq = 1
    /\ pending = EmptyBag
    /\ last = NoRequest

NextStartup ==
    \/ \E ok \in BOOLEAN : InitConnect(ok)
    \/ \E ok \in BOOLEAN : InitCreateOrganizers(ok)
    \/ \E ok \in BOOLEAN : InitCreateProtests(ok)
    \/ \E r \in Slots : HandlerEntry(r)
    \/ \E r \in Slots : EagerEntry(r)
    \/ \E r \in Slots : Dispatch(r)
    \/ \E r \in Slots : Answer500(r)

SpecInit == InitStartup /\ [][NextStartup]_vars

\* The event loop runs every continuation that is ready: a request suspended
\* on a settled promise is resumed.
SpecInitLive ==
    /\ SpecInit
    /\ \A r \in Slots : WF_vars(Dispatch(r)) /\ WF_vars(Answer500(r))

\* The standalone server: `node server.js` against a database without
\* tables, from the moment app.listen has been called.
InitListen ==
    /\ variant = "standalone"
    /\ initializationPromise = "null"
    /\ initPc = "none"
    /\ initStarts = 0
    /\ initError = NoError
    /\ acquired = 0
    /\ released = 0
    /\ tables = {}
    /\ isInitialized = FALSE
    /\ exited = FALSE
    /\ wreq = [r \in Slots |-> [pc |-> "idle", err |-> NoError]]
    /\ storeUp = TRUE
    /\ organizers = <<>>
    /\ protests = <<>>
    /\ protests_id_seq = 1
    /\ pending = EmptyBag
    /\ last = NoRequest

NextListen ==
    \/ ListenCallback
    \/ \E ok \in BOOLEAN : CreateTablesProtests(ok)
    \/ \E ok \in BOOLEAN : CreateTablesOrganizers(ok)
    \/ \E r \in Slots, table \in AllTables : RouteQuery(r, table)

SpecListen == InitListen /\ [][NextListen]_vars

-----------------------------------------------------------------------------
(* Start-up properties *)

InitSucceeded ==
    /\ initPc = "finished"
    /\ initError = NoError
    /\ tables = AllTables

Settled(r) == wreq[r].pc \in {"dispatched", "answered500"}

\* C1: however many requests call ensureDbReady / ensureDbIsReady, and in
\* whatever order they arrive while the first initialization is still in
\* flight, the schema-creation work is started at most once.
C1_InitStartedAtMostOnce == initStarts <= 1

\* Two requests are suspended on the one initialization still in flight.
C1_Witness ==
    /\ initStarts = 1
    /\ InitRunning
    /\ \E r1, r2 \in Slots :
          r1 # r2 /\ wreq[r1].pc = "awaiting" /\ wreq[r2].pc = "awaiting"

\* C2: a request is passed to the Express app only after the schema
\* initialization has completed successfully; none is dispatched while the
\* initialization is in flight.
C2_DispatchOnlyAfterInit ==
    \A r \in Slots : wreq[r].pc = "dispatched" => InitSucceeded /\ ~InitRunning

\* Every request of the run, the ones that arrived before the initialization
\* finished included, has been dispatched.
C2_Witness ==
    /\ variant # "eager"
    /\ \A r \in Slots : wreq[r].pc = "dispatched"

\* C3: every call observes the outcome of the one initialization run: all
\* resolve when it succeeded, all reject with its failure when it failed,
\* and no later call starts the initialization again.
C3_SameOutcome ==
    /\ \A r \in Slots :
          /\ wreq[r].pc = "dispatched" =>
                initializationPromise = "fulfilled" /\ initError = NoError
          /\ wreq[r].pc = "answered500" =>
                initializationPromise = "rejected" /\ wreq[r].err = initError
    /\ \A r1, r2 \in Slots : Settled(r1) /\ Settled(r2) => wreq[r1] = wreq[r2]
    /\ initializationPromise \in {"fulfilled", "rejected"} => initStarts = 1

\* A failed run observed by two calls, one call still to come.
C3_Witness ==
    /\ initializationPromise = "rejected"
    /\ \E r1, r2, r3 \in Slots :
          /\ r1 # r2
          /\ wreq[r1].pc = "answered500"
          /\ wreq[r2].pc = "answered500"
          /\ wreq[r3].pc = "awaiting"

InitFailed == initError # NoError

\* C4: once the schema initialization has failed no request is dispatched to
\* the Express app: in the memo snapshots every request at the wrapper is
\* answered 500, in the eager snapshot the process has exited and answers
\* nothing.
C4_FailedInitAnswers500 ==
    /\ [](InitFailed =>
            \A r \in Slots :
               /\ wreq[r].pc \in {"idle", "awaiting", "answered500"}
               /\ variant = "eager" =>
                     exited /\ wreq[r].pc \in {"idle", "awaiting"})
    /\ \A r \in Slots :
          (InitFailed /\ variant # "eager" /\ wreq[r].pc = "awaiting")
             ~> (wreq[r].pc = "answered500")

\* The initialization failed and every request of the run was answered 500.
C4_Witness ==
    /\ InitFailed
    /\ \A r \in Slots : wreq[r].pc = "answered500"

-----------------------------------------------------------------------------
(* Like / Unlike properties *)

\* C5: a Like/Unlike request on an existing protest sets its counter to
\* max(0, likes + sign), where sign is +1 when `liked` is true and -1 when it
\* is false or absent; the response reports the new counter, and no counter
\* is ever below zero.
C5_LikeSetsCounter ==
    [][\A id \in DOMAIN protests :
          (last'.op = "like" /\ last'.id = id) =>
             LET sign == IF last'.liked = "true" THEN 1 ELSE -1
                 sum == protests[id].likes + sign
                 expected == IF sum < 0 THEN 0 ELSE sum
             IN /\ last'.status = 200
                /\ id \in DOMAIN protests'
                /\ protests'[id].likes = expected
                /\ last'.n = expected
                /\ \A other \in DOMAIN protests' : protests'[other].likes >= 0
      ]_vars

\* A second like has been answered with the counter it raised to 2.
C5_Witness ==
    /\ last.op = "like"
    /\ last.status = 200
    /\ last.liked = "true"
    /\ last.id \in DOMAIN protests
    /\ protests[last.id].likes = 2
    /\ last.n = 2

\* C6: a Like request naming a protest id that does not exist is answered
\* 404 and changes nothing in the store: no counter of any protest moves.
C6_LikeUnknownProtest ==
    [][(last'.op = "like" /\ last'.id \notin DOMAIN protests) =>
          /\ last'.status = 404
          /\ protests' = protests
          /\ organizers' = organizers
          /\ protests_id_seq' = protests_id_seq
      ]_vars

\* A like for an absent id was answered 404 while another protest exists.
C6_Witness ==
    /\ last.op = "like"
    /\ last.status = 404
    /\ last.id \notin DOMAIN protests
    /\ DOMAIN protests # {}

-----------------------------------------------------------------------------
(* Ownership properties *)

\* The step removes row `id` or changes a column of it other than the like
\* counter, which every client may move.
Edited(id) ==
    \/ id \notin DOMAIN protests'
    \/ [protests'[id] EXCEPT !.likes = protests[id].likes] # protests[id]

\* C7: under every interleaving, an Update or Delete request that carries a
\* valid token of an organizer who does not own the protest is answered with
\* the ownership error (403; 404 where the update is conditional) and leaves
\* the protests table as it was; a row is edited or removed only by a request
\* of its owner.
C7_OnlyOwnerEdits ==
    [][\A id \in DOMAIN protests :
          LET owner == protests[id].organizer_id IN
          /\ (/\ last'.op \in {"update", "delete"}
              /\ last'.id = id
              /\ Verify(last'.auth)
              /\ last'.auth.id # owner)
                => /\ last'.status = IF variant = "api" THEN 403 ELSE 404
                   /\ protests' = protests
          /\ Edited(id) =>
                /\ last'.op \in {"update", "delete"}
                /\ last'.id = id
                /\ Verify(last'.auth)
                /\ last'.auth.id = owner
      ]_vars

\* A request of another organizer was answered 403 while a request of the
\* owner is suspended between its check and its write.
C7_Witness ==
    /\ last.op \in {"update", "delete"}
    /\ last.status = 403
    /\ last.id \in DOMAIN protests
    /\ Verify(last.auth)
    /\ last.auth.id # protests[last.id].organizer_id
    /\ pending # EmptyBag

-----------------------------------------------------------------------------
(* Account properties *)

\* C8: of two Register requests that carry all required fields and the same
\* email, the first is answered 201 and inserts one row, the second is
\* answered with the duplicate-email error (409 or 400) and inserts no row.
C8_DuplicateEmailRejected ==
    [][(/\ last'.op = "register"
        /\ Absent \notin {last'.name, last'.email, last'.password}) =>
          IF EmailTaken(last'.email)
          THEN /\ last'.status \in {409, 400}
               /\ organizers' = organizers
          ELSE /\ last'.status = 201
               /\ Len(organizers') = Len(organizers) + 1
               /\ organizers'[Len(organizers')].email = last'.email
      ]_vars

\* the step executes a Register INSERT whose email is already in the table:
\* the store rejects it with a unique violation (db.js:22)
InsertRejectedAsDuplicate ==
    /\ last'.op = "register"
    /\ Absent \notin {last'.name, last'.email, last'.password}
    /\ EmailTaken(last'.email)
    /\ variant = "api" => pending' # pending

\* C20: whenever the store rejects a Register INSERT because the email is
\* already present, the request is answered 409 or 400 and not 500, on every
\* path, two overlapping Registers that both passed the existence check
\* included.
C20_RejectedInsertIsDuplicateError ==
    [][(variant \in {"api", "organizers"} /\ InsertRejectedAsDuplicate) =>
          last'.status \in {409, 400}]_vars

-----------------------------------------------------------------------------
(* Authentication properties *)

\* the routes behind the token middleware
Protected == {"create", "update", "delete"}

\* C9: a handler behind the token middleware runs only for a request whose
\* token verifies against the server's secret and is in date, and the
\* organizer id it works with is the id the token was issued for; a request
\* without a token is answered 401, one with an invalid or expired token 403
\* (bearer) or 400 (x-auth-token), and neither changes the store.
C9_TokenGatesHandlers ==
    [][/\ last'.op \in Protected =>
             /\ last'.auth = NoToken => last'.status = 401
             /\ (last'.auth # NoToken /\ ~Verify(last'.auth)) =>
                   last'.status = InvalidTokenStatus
             /\ ~Verify(last'.auth) =>
                   /\ last'.who = 0
                   /\ UNCHANGED <<store, pending>>
             /\ Verify(last'.auth) =>
                   /\ last'.auth.id \in 1..Len(organizers)
                   /\ last'.auth = Sign(last'.auth.id)
                   /\ last'.who = last'.auth.id
                   /\ last'.status # 401
             /\ (last'.op = "create" /\ last'.status = 201) =>
                   protests'[last'.id].organizer_id = last'.auth.id
       /\ \A k \in BagToSet(pending') :
             k.op \in Protected => Verify(k.auth) /\ k.who = k.auth.id
       /\ (last'.op = "login" /\ last'.status = 200) =>
             /\ last'.n \in OrganizerByEmail(last'.email)
             /\ last'.tok = Sign(last'.n)
      ]_vars

\* The second organizer's token was accepted and the protest created belongs
\* to the organizer the token names.
C9_Witness ==
    /\ last.op = "create"
    /\ last.status = 201
    /\ Verify(last.auth)
    /\ last.auth.id = 2
    /\ last.id \in DOMAIN protests
    /\ protests[last.id].organizer_id = 2

\* C10: a Login request that submits an email and a password is answered
\* with success and a token for the organizer exactly when the email is
\* registered and the password matches the stored digest; otherwise it is
\* answered 401 or 400 without a token.  The answer depends on the
\* credentials and the table only, and the store is left as it was.
C10_LoginIffCredentialsMatch ==
    [][(last'.op = "login" /\ Absent \notin {last'.email, last'.password}) =>
          LET rows == {i \in 1..Len(organizers) :
                          /\ organizers[i].email = last'.email
                          /\ organizers[i].password_hash = Hash(last'.password)}
          IN /\ rows # {} =>
                   /\ last'.status = 200
                   /\ Verify(last'.tok)
                   /\ last'.tok.id \in rows
             /\ rows = {} =>
                   /\ last'.status \in {401, 400}
                   /\ last'.tok = NoToken
             /\ UNCHANGED store
      ]_vars

-----------------------------------------------------------------------------
(* Race properties *)

\* C11: an Update request by the protest's owner is answered 404 whenever the
\* protest does not exist when it is answered, and every 200 answer carries
\* the row as this request overwrote it, also when a Delete of the same
\* protest runs between the ownership read and the UPDATE statement.
C11_UpdateAnswers404OrRow ==
    [][(last'.op = "update" /\ Verify(last'.auth)) =>
          /\ last'.id \notin DOMAIN protests => last'.status = 404
          /\ last'.status = 200 =>
                /\ last'.id \in DOMAIN protests'
                /\ last'.rows = <<AsRow(last'.id, protests'[last'.id])>>
                /\ protests'[last'.id].name = last'.name
                /\ protests'[last'.id].date = last'.date
                /\ protests'[last'.id].time = last'.time
      ]_vars

\* A handler is between its ownership check and its write, and the row it
\* checked now has another owner than the one the check read.
OwnerChangedSinceCheck ==
    \E k \in BagToSet(pending) :
       /\ k.op \in {"update", "delete"}
       /\ k.id \in DOMAIN protests
       /\ protests[k.id].organizer_id # k.who

C22_AcquiredClientReleasedOnce ==
    /\ released <= acquired
    /\ initPc = "finished" => released = acquired
    /\ (initPc = "finished" /\ initError # "connect") => acquired = 1
    /\ (initPc = "finished" /\ initError = "connect") =>
          /\ acquired = 0
          /\ released = 0
          /\ initializationPromise = "rejected" \/ exited

\* a CREATE TABLE statement failed and the client went back to the pool
C22_Witness ==
    /\ initPc = "finished"
    /\ initError \in {"organizers", "protests"}
    /\ acquired = 1
    /\ released = 1

\* C23: in the standalone server no route handler issues a statement
\* against the organizers or protests table before createTables has
\* completed.
C23_NoQueryBeforeCreateTables ==
    \A r \in Slots : wreq[r].pc \in {"queried", "answered500"} => initPc = "finished"

\* C24: a Delete request is answered with the 200 confirmation only if its
\* own DELETE statement removed the row, so at most one Delete of a protest
\* is confirmed, in any interleaving of Deletes issued by the owner.
C24_ConfirmedDeleteRemovedRow ==
    [][(last' # last /\ last'.op = "delete" /\ last'.status = 200) =>
          /\ last'.id \in DOMAIN protests
          /\ last'.id \notin DOMAIN protests']_vars

-----------------------------------------------------------------------------
(* Failure propagation *)

\* the handler of request r sends a statement to the database
IssuesStatement(r) ==
    \/ r.op = "like" /\ variant = "api"
    \/ r.op = "update" /\ (variant = "standalone" \/ authenticateToken(r.auth) = 200)

\* C21: after a successful initialization every request that reaches a
\* route handler gets one response, and when a statement of the handler
\* fails the response is 500. A handler's run is one step here (two for the
\* check-then-write routes), and nothing but the handler holds `res`: the
\* request gets its response exactly when the step that ends the handler has
\* written one.
C21_HandlerAnswersAndMapsFailure ==
    [][(last' # last /\ last'.op # "none") =>
          /\ last'.status # 0
          /\ (~storeUp /\ IssuesStatement(last')) => last'.status = 500]_vars

-----------------------------------------------------------------------------
(* Registration properties *)

\* C12: every successful Register request (part_001:32-67, 342-363) is
\* answered 201 with a signed token embedding the id of the organizer just
\* created and with the organizer's public fields, and the response never
\* contains the password digest.
C12_RegisterReturnsToken ==
    [][(variant \in {"api", "organizers"} /\ Len(organizers') > Len(organizers)) =>
          /\ last'.op = "register"
          /\ last'.status = 201
          /\ last'.n = Len(organizers')
          /\ organizers'[last'.n].email = last'.email
          /\ Verify(last'.tok)
          /\ last'.tok.id = last'.n
          /\ {"id", "name", "email"} \subseteq last'.shows
          /\ "password_hash" \notin last'.shows
      ]_vars

-----------------------------------------------------------------------------
(* Create and ownership of rows *)

\* C13: Create inserts a protest only for an authenticated caller whose
\* request has name, date and time, and the inserted row's owner is the
\* organizer id of the verified token; a request missing name, date or time
\* is answered 400 and inserts nothing.
C13_CreateValidatesAndOwns ==
    [][/\ DOMAIN protests' \ DOMAIN protests # {} =>
             /\ last'.op = "create"
             /\ last'.status = 201
             /\ Verify(last'.auth)
             /\ ~ProtestNotNullError(last'.name, last'.date, last'.time)
             /\ DOMAIN protests' \ DOMAIN protests = {last'.id}
             /\ protests'[last'.id].organizer_id = last'.auth.id
             /\ last'.rows = <<AsRow(last'.id, protests'[last'.id])>>
       /\ (/\ last'.op = "create"
           /\ Verify(last'.auth)
           /\ ProtestNotNullError(last'.name, last'.date, last'.time)) =>
             /\ last'.status = 400
             /\ protests' = protests
      ]_vars

\* C17: in every reachable state every protest row has one owner and that
\* owner is an existing organizer.
C17_OwnerIsAnOrganizer ==
    \A id \in DOMAIN protests : protests[id].organizer_id \in 1..Len(organizers)

-----------------------------------------------------------------------------
(* List properties *)

\* entries i and i + 1 of a response are in (date, time) order: the earlier
\* one's date is before the later one's, or the dates are equal and its time
\* is not after the later one's
InDateTimeOrder(rows) ==
    \A i \in 1..(Len(rows) - 1) :
       \/ rows[i].date < rows[i + 1].date
       \/ rows[i].date = rows[i + 1].date /\ ~(rows[i].time > rows[i + 1].time)

\* C14: the public List endpoint returns protests in non-decreasing order of
\* (date, time), for every content of the protests table.
C14_ListIsOrdered ==
    (last.op = "list" /\ last.status = 200) => InDateTimeOrder(last.rows)

\* A list of MaxListed protests of one date whose times of day differ.
C14_Witness ==
    /\ last.op = "list"
    /\ last.status = 200
    /\ Len(last.rows) = MaxListed
    /\ last.rows[1].date = last.rows[2].date
    /\ last.rows[1].time < last.rows[2].time
    /\ last.rows[1].id > last.rows[2].id

\* C15: List-mine returns exactly the protests whose owner is the
\* authenticated caller, whatever id the request path carries, in the order
\* of List: date ascending, then time ascending.
C15_MineIsCallersInListOrder ==
    (last.op = "mine" /\ last.status = 200) =>
       /\ Verify(last.auth)
       /\ {last.rows[i].id : i \in DOMAIN last.rows}
             = {id \in DOMAIN protests : protests[id].organizer_id = last.auth.id}
       /\ \A i, j \in DOMAIN last.rows : i # j => last.rows[i].id # last.rows[j].id
       /\ \A i \in DOMAIN last.rows :
             last.rows[i] = AsRow(last.rows[i].id, protests[last.rows[i].id])
       /\ InDateTimeOrder(last.rows)

-----------------------------------------------------------------------------
(* Follow / Unfollow properties *)

\* C16: a Follow/Unfollow request for an existing organizer sets the
\* follower counter to max(0, followers + d), d = +1 when `following` is true
\* and -1 otherwise, and returns the new counter; a request for an unknown
\* organizer id is answered 404 and changes no follower counter; no follower
\* counter is ever negative.
C16_FollowSetsCounter ==
    [][last'.op = "follow" =>
          /\ Len(organizers') = Len(organizers)
          /\ \A i \in 1..Len(organizers') : organizers'[i].followers >= 0
          /\ IF last'.id \in 1..Len(organizers)
             THEN LET d == IF last'.following = "true" THEN 1 ELSE -1
                      sum == organizers[last'.id].followers + d
                      expected == IF sum < 0 THEN 0 ELSE sum
                  IN /\ last'.status = 200
                     /\ last'.n = expected
                     /\ organizers' =
                           [organizers EXCEPT ![last'.id].followers = expected]
             ELSE /\ last'.status = 404
                  /\ organizers' = organizers
      ]_vars

\* The second organizer's counter was raised twice and the answer reports 2.
C16_Witness ==
    /\ last.op = "follow"
    /\ last.status = 200
    /\ last.following = "true"
    /\ last.id = 2
    /\ Len(organizers) = 2
    /\ organizers[2].followers = 2
    /\ last.n = 2

-----------------------------------------------------------------------------
(* Like and Unlike as inverses *)

\* request r was answered with a counter
Counted(r) == r.op \in {"like", "follow"} /\ r.status = 200

\* request r is a Like (a Follow), not an Unlike (an Unfollow)
Raises(r) == IF r.op = "like" THEN r.liked = "true" ELSE r.following = "true"

\* C25: Like and Unlike are inverse only away from zero.  Of two requests on
\* the same row handled one right after the other, the first finding the
\* counter at n: a Like followed by an Unlike leaves and reports n; an Unlike
\* followed by a Like leaves n when n >= 1 and 1 when n = 0.  So on a counter
\* at 0 the two orders of one Like and one Unlike end at 0 and at 1.  The
\* same for Follow and Unfollow.
C25_InverseAwayFromZero ==
    [][(/\ Counted(last) /\ Counted(last')
        /\ last'.op = last.op /\ last'.id = last.id
        /\ Raises(last) # Raises(last')) =>
          LET n == last.before
              expected == IF Raises(last) THEN n
                          ELSE IF n >= 1 THEN n ELSE 1
          IN /\ last'.n = expected
             /\ IF last'.op = "like"
                THEN protests'[last'.id].likes = expected
                ELSE organizers'[last'.id].followers = expected
      ]_vars

\* The Like of a pair on a counter at 0: it found the counter at 0, where an
\* Unlike leaves it, and was answered 1.
C25_Witness ==
    /\ last.op = "like"
    /\ last.status = 200
    /\ last.liked = "true"
    /\ last.before = 0
    /\ last.n = 1
    /\ protests[last.id].likes = 1

-----------------------------------------------------------------------------
(* Counter updates under concurrency *)

\* C18: no increment of a counter is lost.  Every Like request raises the
\* counter of its protest by exactly one over the value the preceding request
\* left and reports the raised value, and no other request (an owner's Update
\* suspended before its write included) moves the counter: k Like requests on
\* a counter n, in any interleaving, end at n + k and report n+1 .. n+k.
C18_NoLostIncrement ==
    [][\A id \in DOMAIN protests :
          /\ (id \in DOMAIN protests' /\ protests'[id].likes # protests[id].likes) =>
                /\ last'.op = "like"
                /\ last'.id = id
                /\ last'.status = 200
          /\ (last'.op = "like" /\ last'.id = id /\ last'.liked = "true") =>
                /\ id \in DOMAIN protests'
                /\ protests'[id].likes = protests[id].likes + 1
                /\ last'.n = protests[id].likes + 1
      ]_vars

\* Two likes were counted while an Update of the same protest is suspended
\* between its ownership check and its UPDATE statement.
C18_Witness ==
    /\ last.op = "like"
    /\ last.status = 200
    /\ last.n = 2
    /\ \E k \in BagToSet(pending) : k.op = "update" /\ k.id = last.id

=============================================================================
